---- MODULE Spec2Model ----
(***************************************************************************)
(* Notir: the single-mode subscription registry and delivery engine of     *)
(* src/src/single.rs, and the broadcast registry of src/src/broadcast.rs.  *)
(*                                                                         *)
(* State: ONLINE_USERS (identifier -> set of connection ids, each with the *)
(* sender half of its outbound queue), CALLBACK_CHANNELS (identifier ->    *)
(* FIFO of reply slots), every connection's task position and queue, and   *)
(* every publish request's position, locals and response.                  *)
(*                                                                         *)
(* Granularity: one action per critical section.  A DashMap guard (Ref /   *)
(* RefMut) locks the shard of its key; ONLINE_USERS.get() in               *)
(* publish_message keeps a read guard until the end of the `if let` block, *)
(* so writers of that identifier (entry(), get_mut(), remove()) wait for   *)
(* the publisher.  Identifiers are taken to live in distinct shards.       *)
(*                                                                         *)
(* BROADCAST_USERS is one tokio RwLock around the whole map: a broadcast   *)
(* publish holds the read lock for its pass over the identifier's list,    *)
(* and the insert, the disconnect and the prune take the write lock.       *)
(*                                                                         *)
(* Spec    : single mode, one identifier.                                  *)
(* SpecB   : broadcast mode, one identifier.                               *)
(* SpecAll : both modes, two identifiers.                                  *)
(* SpecRT  : connections that subscribe and disconnect, starting from a    *)
(*           registry that already holds a subscriber.                     *)
(* SpecFair: Spec with the publish handlers scheduled fairly.              *)
(* SpecHB  : both modes, one identifier, with the heartbeat ping tasks.    *)
(***************************************************************************)
EXTENDS Integers, Sequences, FiniteSets, TLC

\* At most MaxTasks requests (WebSocket upgrades and publishes) arrive in a run.
MaxTasks == 3
\* At most MaxPings heartbeat pings wait in one queue at a time.
MaxPings == 1

Conns == 1..MaxTasks
Pubs == 1..MaxTasks
BConns == 1..MaxTasks
BPubs == 1..MaxTasks
Ids == {"x"}
Ids2 == {"x", "y"}
NoConn == 0

(* ---------------- messages, content types, bodies ---------------------- *)

Msg(k, b) == [kind |-> k, payload |-> b]

\* Content-Type header values as character sequences ("" when absent).
CtNone == <<>>
CtText == <<"t", "e", "x", "t", "/", "p">>
CtJson == <<"a", "p", "p", "l", "i", "c", "a", "t", "i", "o", "n", "/", "j", "s", "o", "n">>
CtOctet == <<"a", "p", "p", "l", "i", "c", "a", "t", "i", "o", "n", "/", "o">>
ContentTypes == {CtNone, CtText, CtJson, CtOctet}
PrefixJson == CtJson
PrefixText == <<"t", "e", "x", "t", "/">>

\* Request bodies: "h", and the lone byte 0xFF (not UTF-8).
Bodies == {<<104>>, <<255>>}

\* Frames a subscriber may send (a ping may carry application data).
Frames == {Msg("pong", <<>>), Msg("ping", <<33>>), Msg("close", <<>>),
           Msg("text", <<33>>), Msg("binary", <<1>>)}

StartsWith(s, prefix) ==
    /\ Len(s) >= Len(prefix)
    /\ SubSeq(s, 1, Len(prefix)) = prefix

IsCont(b) == b \in 128..191

RECURSIVE IsUtf8(_)
IsUtf8(b) ==
    IF b = <<>> THEN TRUE
    ELSE IF b[1] < 128 THEN IsUtf8(Tail(b))
    ELSE IF b[1] \in 194..223
        THEN Len(b) >= 2 /\ IsCont(b[2]) /\ IsUtf8(SubSeq(b, 3, Len(b)))
    ELSE IF b[1] \in 224..239
        THEN /\ Len(b) >= 3 /\ IsCont(b[2]) /\ IsCont(b[3])
             /\ (b[1] = 224 => b[2] >= 160)
             /\ (b[1] = 237 => b[2] <= 159)
             /\ IsUtf8(SubSeq(b, 4, Len(b)))
    ELSE IF b[1] \in 240..244
        THEN /\ Len(b) >= 4 /\ IsCont(b[2]) /\ IsCont(b[3]) /\ IsCont(b[4])
             /\ (b[1] = 240 => b[2] >= 144)
             /\ (b[1] = 244 => b[2] <= 143)
             /\ IsUtf8(SubSeq(b, 5, Len(b)))
    ELSE FALSE

IsTextual(ct) == StartsWith(ct, PrefixJson) \/ StartsWith(ct, PrefixText)

\* The body is rejected with 400 "Invalid UTF-8 in body".
Rejected(ct, body) == IsTextual(ct) /\ ~IsUtf8(body)

\* Mutant of Encode: every body goes out as a binary frame.
EncodeBinary(ct, body) == Msg("binary", body)

Encode(ct, body) ==
    IF IsTextual(ct) THEN Msg("text", body) ELSE Msg("binary", body)

(* ---------------- state ------------------------------------------------ *)

VARIABLES
    users,      \* ONLINE_USERS: function on the identifiers present
    callbacks,  \* CALLBACK_CHANNELS: function on the identifiers present
    conn,       \* per connection: task position, identifier, queue, ping task
    pub,        \* per publish request: position, inputs, locals, response
    chan,       \* per publish request: its oneshot reply channel
    busers,     \* BROADCAST_USERS: identifier -> list of Connection
    bconn,      \* per broadcast connection: task position, identifier, queue
    bpub,       \* per broadcast publish: position, locals, response
    counter     \* CONNECTION_COUNTER

svars == <<users, callbacks, conn, pub, chan>>
bvars == <<busers, bconn, bpub, counter>>
vars == <<users, callbacks, conn, pub, chan, busers, bconn, bpub, counter>>

IdleConn == [pc |-> "idle", id |-> "", open |-> FALSE, queue |-> <<>>,
             hb |-> "none"]
IdlePub == [pc |-> "idle", id |-> "", mode |-> "shot", msg |-> Msg("binary", <<>>),
            status |-> 0, body |-> <<>>, sentTo |-> NoConn]
Pending == [st |-> "pending", val |-> <<>>]
Closed == [st |-> "closed", val |-> <<>>]
Value(b) == [st |-> "value", val |-> b]

IdleBConn == [pc |-> "idle", id |-> "", cid |-> 0, open |-> FALSE, queue |-> <<>>,
              hb |-> "none"]
IdleBPub == [pc |-> "idle", id |-> "", msg |-> Msg("binary", <<>>), idx |-> 0,
             failed |-> {}, status |-> 0]

EmptyMap == [k \in {} |-> {}]

Init ==
    /\ users = EmptyMap
    /\ callbacks = EmptyMap
    /\ conn = [c \in Conns |-> IdleConn]
    /\ pub = [p \in Pubs |-> IdlePub]
    /\ chan = [p \in Pubs |-> Pending]
    /\ busers = EmptyMap
    /\ bconn = [c \in BConns |-> IdleBConn]
    /\ bpub = [p \in BPubs |-> IdleBPub]
    /\ counter = 0

\* Requests that have arrived so far, and whether one more may.
Started(f) == Cardinality({k \in DOMAIN f : f[k].pc # "idle"})
Room == Started(conn) + Started(pub) + Started(bconn) + Started(bpub) < MaxTasks

(* ---------------- maps, FIFOs, channels -------------------------------- *)

Put(m, k, v) == [x \in DOMAIN m \cup {k} |-> IF x = k THEN v ELSE m[x]]
Remove(m, k) == [x \in DOMAIN m \ {k} |-> m[x]]

\* ONLINE_USERS.get(id).is_some()
Lookup(id) == id \in DOMAIN users

\* DashMap::entry(id).or_default(): the value under id, created empty if absent.
OrDefault(m, id, empty) == IF id \in DOMAIN m THEN m[id] ELSE empty

\* connections: the size of the identifier's inner map, 0 when absent.
Count(id) == IF id \in DOMAIN users THEN Cardinality(users[id]) ELSE 0

\* A publisher between ONLINE_USERS.get() and the end of its `if let` block
\* holds a read guard on the identifier's shard.
Readers(id) == {p \in Pubs : pub[p].id = id /\ pub[p].pc \in {"pushed", "remove_user"}}
WriteFree(id) == Readers(id) = {}

\* The receiving half of p's oneshot channel is alive: created before the
\* lookup, consumed by the timed wait.
RxAlive(p) == pub[p].pc \in {"pushed", "remove_user", "wait"}

SlotsOf(q) == {q[i] : i \in 1..Len(q)}

\* Mutant of PopFront: serves the newest slot.
PopBack(q) == [slot |-> q[Len(q)], rest |-> SubSeq(q, 1, Len(q) - 1)]

\* VecDeque::pop_front(): the oldest slot and what stays behind.
PopFront(q) == [slot |-> Head(q), rest |-> Tail(q)]

\* Mutant of Retain: drops the head of the FIFO whatever its id.
RetainTail(q, slot) == IF q = <<>> THEN q ELSE Tail(q)

\* VecDeque::retain(|(callback_id, _)| callback_id != &id)
Retain(q, slot) == SelectSeq(q, LAMBDA s : s # slot)

\* Mutant of Deliver: the popped slot's sender is dropped without a send.
DeliverDropped(ch, slot, data) ==
    IF RxAlive(slot) /\ ch[slot].st = "pending"
    THEN [ch EXCEPT ![slot] = Closed] ELSE ch

\* tx.send(data) on the popped slot: the value lands if the receiver is alive.
Deliver(ch, slot, data) ==
    IF RxAlive(slot) THEN [ch EXCEPT ![slot] = Value(data)] ELSE ch

\* Dropping a FIFO drops the senders in it: every pending receiver sees
\* "channel closed".
DropSenders(ch, q) ==
    [p \in Pubs |-> IF p \in SlotsOf(q) /\ RxAlive(p) /\ ch[p].st = "pending"
                    THEN Closed ELSE ch[p]]

\* mpsc::UnboundedSender::send fails once the receiver (the writer) is gone.
SendFails(c) == ~conn[c].open

Enqueue(cn, targets, m) ==
    [c \in Conns |-> IF c \in targets
                     THEN [cn[c] EXCEPT !.queue = Append(@, m)] ELSE cn[c]]

(* ---------------- connection tasks (handle_socket) --------------------- *)

\* Mutant of Subscribe: the insert replaces the identifier's inner map.
SubscribeOverwrite(c, id) ==
    /\ conn[c].pc = "idle"
    /\ c > 1 => conn[c - 1].pc # "idle"
    /\ Room
    /\ WriteFree(id)
    /\ users' = Put(users, id, {c})
    /\ conn' = [conn EXCEPT ![c] = [pc |-> "read", id |-> id, open |-> TRUE,
                                    queue |-> <<>>, hb |-> "ticking"]]
    /\ UNCHANGED <<callbacks, pub, chan, bvars>>

\* Upgrade: channel and writer created, then the registry insert.  Upgrades
\* arrive in index order (connections are interchangeable).
Subscribe(c, id) ==
    /\ conn[c].pc = "idle"
    /\ c > 1 => conn[c - 1].pc # "idle"
    /\ Room
    /\ WriteFree(id)
    /\ users' = Put(users, id, OrDefault(users, id, {}) \cup {c})
    /\ conn' = [conn EXCEPT ![c] = [pc |-> "read", id |-> id, open |-> TRUE,
                                    queue |-> <<>>, hb |-> "ticking"]]
    /\ UNCHANGED <<callbacks, pub, chan, bvars>>

\* Mutant of ReaderFrame: the FIFO is looked up with entry().or_default(),
\* which creates it when absent.
ReaderFrameCreates(c, f) ==
    /\ conn[c].pc = "read"
    /\ LET id == conn[c].id
           q == OrDefault(callbacks, id, <<>>)
       IN /\ IF f.kind # "pong" /\ q # <<>>
             THEN /\ callbacks' = [callbacks EXCEPT ![id] = PopFront(@).rest]
                  /\ chan' = Deliver(chan, PopFront(q).slot, f.payload)
             ELSE /\ callbacks' = IF f.kind # "pong" THEN Put(callbacks, id, q)
                                  ELSE callbacks
                  /\ chan' = chan
          /\ conn' = IF f.kind = "close"
                     THEN [conn EXCEPT ![c].pc = "disc"] ELSE conn
    /\ UNCHANGED <<users, pub, bvars>>

\* One inbound frame in the reader loop.
ReaderFrame(c, f) ==
    /\ conn[c].pc = "read"
    /\ LET id == conn[c].id
           serve == f.kind # "pong" /\ id \in DOMAIN callbacks
                    /\ callbacks[id] # <<>>
       IN /\ IF serve
             THEN /\ callbacks' = [callbacks EXCEPT ![id] = PopFront(@).rest]
                  /\ chan' = Deliver(chan, PopFront(callbacks[id]).slot, f.payload)
             ELSE UNCHANGED <<callbacks, chan>>
          /\ conn' = IF f.kind = "close"
                     THEN [conn EXCEPT ![c].pc = "disc"] ELSE conn
    /\ UNCHANGED <<users, pub, bvars>>

\* The inbound stream ends or yields an error.
ReaderExit(c) ==
    /\ conn[c].pc = "read"
    /\ conn' = [conn EXCEPT ![c].pc = "disc"]
    /\ UNCHANGED <<users, callbacks, pub, chan, bvars>>

\* user_disconnected: get_mut, remove the connection, test is_empty, drop the guard.
DiscRemoveConn(c) ==
    /\ conn[c].pc = "disc"
    /\ WriteFree(conn[c].id)
    /\ LET id == conn[c].id IN
       IF id \in DOMAIN users
       THEN /\ users' = [users EXCEPT ![id] = @ \ {c}]
            /\ conn' = [conn EXCEPT ![c].pc =
                            IF users[id] \ {c} = {} THEN "rm_user" ELSE "gone"]
       ELSE /\ users' = users
            /\ conn' = [conn EXCEPT ![c].pc = "gone"]
    /\ UNCHANGED <<callbacks, pub, chan, bvars>>

\* Mutant of DiscRemoveUser: the emptied entry is left in ONLINE_USERS.
DiscKeepUser(c) ==
    /\ conn[c].pc = "rm_user"
    /\ WriteFree(conn[c].id)
    /\ conn' = [conn EXCEPT ![c].pc = "rm_cb"]
    /\ UNCHANGED <<users, callbacks, pub, chan, bvars>>

\* Mutant of DiscRemoveUser: every identifier is removed from ONLINE_USERS.
DiscClearUsers(c) ==
    /\ conn[c].pc = "rm_user"
    /\ WriteFree(conn[c].id)
    /\ users' = EmptyMap
    /\ conn' = [conn EXCEPT ![c].pc = "rm_cb"]
    /\ UNCHANGED <<callbacks, pub, chan, bvars>>

\* user_disconnected: ONLINE_USERS.remove(&my_id)
DiscRemoveUser(c) ==
    /\ conn[c].pc = "rm_user"
    /\ WriteFree(conn[c].id)
    /\ users' = Remove(users, conn[c].id)
    /\ conn' = [conn EXCEPT ![c].pc = "rm_cb"]
    /\ UNCHANGED <<callbacks, pub, chan, bvars>>

\* Mutant of DiscRemoveCallbacks: the FIFO is left in CALLBACK_CHANNELS.
DiscKeepCallbacks(c) ==
    /\ conn[c].pc = "rm_cb"
    /\ conn' = [conn EXCEPT ![c].pc = "gone"]
    /\ UNCHANGED <<users, callbacks, pub, chan, bvars>>

\* user_disconnected: CALLBACK_CHANNELS.remove(&my_id)
DiscRemoveCallbacks(c) ==
    /\ conn[c].pc = "rm_cb"
    /\ LET id == conn[c].id IN
       /\ callbacks' = Remove(callbacks, id)
       /\ chan' = DropSenders(chan, OrDefault(callbacks, id, <<>>))
    /\ conn' = [conn EXCEPT ![c].pc = "gone"]
    /\ UNCHANGED <<users, pub, bvars>>

\* The writer task forwards the head of the queue to the socket.
WriterForward(c) ==
    /\ conn[c].open
    /\ conn[c].queue # <<>>
    /\ conn' = [conn EXCEPT ![c].queue = Tail(@)]
    /\ UNCHANGED <<users, callbacks, pub, chan, bvars>>

\* Heartbeat pings of one queue: Message::ping(vec![]) entries not yet
\* forwarded.
Ping == Msg("ping", <<>>)
Pings(q) == Len(SelectSeq(q, LAMBDA m : m = Ping))

\* Mutant of Heartbeat: the ping is put at the head of the queue.
HeartbeatJumps(c) ==
    /\ conn[c].hb = "ticking"
    /\ conn[c].open
    /\ Pings(conn[c].queue) < MaxPings
    /\ conn' = [conn EXCEPT ![c].queue = <<Ping>> \o @]
    /\ UNCHANGED <<users, callbacks, pub, chan, bvars>>

\* The ping task: every 30 s a ping is sent on the connection's queue, as
\* long as the writer is alive.
Heartbeat(c) ==
    /\ conn[c].hb = "ticking"
    /\ conn[c].open
    /\ Pings(conn[c].queue) < MaxPings
    /\ conn' = [conn EXCEPT ![c].queue = Append(@, Ping)]
    /\ UNCHANGED <<users, callbacks, pub, chan, bvars>>

\* Mutant of HeartbeatExit: the ending task removes its connection from
\* ONLINE_USERS.
HeartbeatExitRemoves(c) ==
    /\ conn[c].hb = "ticking"
    /\ ~conn[c].open
    /\ conn' = [conn EXCEPT ![c].hb = "ended"]
    /\ users' = IF conn[c].id \in DOMAIN users
                THEN [users EXCEPT ![conn[c].id] = @ \ {c}] ELSE users
    /\ UNCHANGED <<callbacks, pub, chan, bvars>>

\* The ping task at a tick after the writer has gone: send fails, the
\* loop breaks and the task ends.
HeartbeatExit(c) ==
    /\ conn[c].hb = "ticking"
    /\ ~conn[c].open
    /\ conn' = [conn EXCEPT ![c].hb = "ended"]
    /\ UNCHANGED <<users, callbacks, pub, chan, bvars>>

\* The socket write fails: the writer ends and the queue's receiver is dropped.
WriterExit(c) ==
    /\ conn[c].open
    /\ conn' = [conn EXCEPT ![c].open = FALSE, ![c].queue = <<>>]
    /\ UNCHANGED <<users, callbacks, pub, chan, bvars>>

(* ---------------- publish requests (publish_message) ------------------- *)

Done(p, id, mode, st, body, to) ==
    [pub EXCEPT ![p] = [pc |-> "done", id |-> id, mode |-> mode,
                        msg |-> IdlePub.msg, status |-> st, body |-> body,
                        sentTo |-> to]]

\* Publishes arrive in index order (they are interchangeable).
CanStart(p) ==
    /\ pub[p].pc = "idle"
    /\ p > 1 => pub[p - 1].pc # "idle"
    /\ Room

\* Missing or empty `id`: 400 before anything else.
PubBadRequest(p) ==
    /\ CanStart(p)
    /\ pub' = Done(p, "", "shot", 400, <<>>, NoConn)
    /\ UNCHANGED <<users, callbacks, conn, chan, bvars>>

\* Mode::Shot, from the lookup to the response.  The loop sends to every
\* connection of the identifier and collects those whose send failed; they
\* are removed from the inner map, and when that leaves it empty the handler
\* calls ONLINE_USERS.remove() while its own read guard is still alive.
PubShot(p, id, ct, body) ==
    /\ CanStart(p)
    /\ IF ~Lookup(id)
       THEN /\ pub' = Done(p, id, "shot", 404, <<>>, NoConn)
            /\ UNCHANGED <<users, conn>>
       ELSE IF Rejected(ct, body)
       THEN /\ pub' = Done(p, id, "shot", 400, <<>>, NoConn)
            /\ UNCHANGED <<users, conn>>
       ELSE LET cs == users[id]
                failed == {c \in cs : SendFails(c)}
            IN /\ conn' = Enqueue(conn, cs \ failed, Encode(ct, body))
               /\ users' = [users EXCEPT ![id] = @ \ failed]
               /\ pub' = IF failed # {} /\ users[id] \ failed = {}
                         THEN [pub EXCEPT ![p] = [IdlePub EXCEPT
                                  !.pc = "remove_user", !.id = id]]
                         ELSE Done(p, id, "shot", 200, <<>>, NoConn)
    /\ UNCHANGED <<callbacks, chan, bvars>>

\* Mutant of PushSlot: the slot is pushed at the front.
PushSlotFront(cb, id, slot) == Put(cb, id, <<slot>> \o OrDefault(cb, id, <<>>))

\* VecDeque::push_back on entry(id).or_default()
PushSlot(cb, id, slot) == Put(cb, id, Append(OrDefault(cb, id, <<>>), slot))

\* Mutant of PubPingPong: the slot is pushed before the lookup.
PubPingPongPushFirst(p, id, ct, body) ==
    /\ CanStart(p)
    /\ callbacks' = PushSlot(callbacks, id, p)
    /\ IF ~Lookup(id)
       THEN pub' = Done(p, id, "ping_pong", 404, <<>>, NoConn)
       ELSE IF Rejected(ct, body)
       THEN pub' = Done(p, id, "ping_pong", 400, <<>>, NoConn)
       ELSE pub' = [pub EXCEPT ![p] = [IdlePub EXCEPT
                        !.pc = "pushed", !.id = id, !.mode = "ping_pong",
                        !.msg = Encode(ct, body)]]
    /\ UNCHANGED <<users, conn, chan, bvars>>

\* Mode::PingPong, from the lookup to the push of the reply slot.
PubPingPong(p, id, ct, body) ==
    /\ CanStart(p)
    /\ IF ~Lookup(id)
       THEN /\ pub' = Done(p, id, "ping_pong", 404, <<>>, NoConn)
            /\ UNCHANGED callbacks
       ELSE IF Rejected(ct, body)
       THEN /\ pub' = Done(p, id, "ping_pong", 400, <<>>, NoConn)
            /\ UNCHANGED callbacks
       ELSE /\ callbacks' = PushSlot(callbacks, id, p)
            /\ pub' = [pub EXCEPT ![p] = [IdlePub EXCEPT
                          !.pc = "pushed", !.id = id, !.mode = "ping_pong",
                          !.msg = Encode(ct, body)]]
    /\ UNCHANGED <<users, conn, chan, bvars>>

\* Mode::PingPong, the send loop and the prune.  The inner map is iterated
\* in hash order: the loop stops at the first connection whose send
\* succeeds (to), after failing on the closed ones that came before it.
PubSend(p) ==
    /\ pub[p].pc = "pushed"
    /\ LET id == pub[p].id
           cs == users[id]
           live == {c \in cs : ~SendFails(c)}
       IN IF live # {}
          THEN \E to \in live : \E failed \in SUBSET (cs \ live) :
                /\ conn' = Enqueue(conn, {to}, pub[p].msg)
                /\ users' = [users EXCEPT ![id] = @ \ failed]
                /\ pub' = [pub EXCEPT ![p].pc = "wait", ![p].sentTo = to,
                                      ![p].msg = IdlePub.msg]
          ELSE /\ conn' = conn
               /\ users' = [users EXCEPT ![id] = {}]
               /\ pub' = IF cs # {}
                         THEN [pub EXCEPT ![p].pc = "remove_user",
                                          ![p].msg = IdlePub.msg]
                         ELSE Done(p, id, "ping_pong", 404, <<>>, NoConn)
    /\ UNCHANGED <<callbacks, chan, bvars>>

\* timeout(5 s, rx): the reply arrived.
PubReply(p) ==
    /\ pub[p].pc = "wait"
    /\ chan[p].st = "value"
    /\ pub' = Done(p, pub[p].id, "ping_pong", 200, chan[p].val, pub[p].sentTo)
    /\ UNCHANGED <<users, callbacks, conn, chan, bvars>>

\* timeout(5 s, rx): the sender was dropped without a reply.
PubClosed(p) ==
    /\ pub[p].pc = "wait"
    /\ chan[p].st = "closed"
    /\ pub' = Done(p, pub[p].id, "ping_pong", 204, <<>>, pub[p].sentTo)
    /\ UNCHANGED <<users, callbacks, conn, chan, bvars>>

\* timeout(5 s, rx): the deadline passed with the channel still pending.
PubTimeout(p) ==
    /\ pub[p].pc = "wait"
    /\ chan[p].st = "pending"
    /\ pub' = [pub EXCEPT ![p].pc = "timeout"]
    /\ UNCHANGED <<users, callbacks, conn, chan, bvars>>

\* The timeout arm: remove the slot by id, answer 408.
PubCleanup(p) ==
    /\ pub[p].pc = "timeout"
    /\ LET id == pub[p].id IN
       callbacks' = IF id \in DOMAIN callbacks
                    THEN [callbacks EXCEPT ![id] = Retain(@, p)]
                    ELSE callbacks
    /\ pub' = Done(p, pub[p].id, "ping_pong", 408, <<>>, pub[p].sentTo)
    /\ UNCHANGED <<users, conn, chan, bvars>>

(* ---------------- broadcast mode (broadcast.rs) ------------------------ *)

\* A Connection of the identifier's list: its id and the sender of its queue.
Connection(n, c) == [cid |-> n, tx |-> c]

\* content_type().unwrap_or_else(octet_stream).to_string()
BContentTypeStr(ct) == IF ct = CtNone THEN CtOctet ELSE ct

\* A broadcast publish in its pass holds the read lock of BROADCAST_USERS.
BReaders == {p \in BPubs : bpub[p].pc = "pass"}
BWriteFree == BReaders = {}

\* Mutant of BRetain: nothing is kept.
BRetainNone(q, dead) == <<>>

\* Vec::retain(|conn| !dead.contains(&conn.connection_id))
BRetain(q, dead) == SelectSeq(q, LAMBDA e : e.cid \notin dead)

\* Mutant of BRemoveConns: the emptied list is left under the identifier.
BRemoveKeepEmpty(m, id, dead) ==
    IF id \in DOMAIN m THEN [m EXCEPT ![id] = BRetain(@, dead)] ELSE m

\* get_mut(id), retain, and remove(id) when the list is left empty.
BRemoveConns(m, id, dead) ==
    IF id \in DOMAIN m
    THEN IF BRetain(m[id], dead) = <<>>
         THEN Remove(m, id)
         ELSE [m EXCEPT ![id] = BRetain(@, dead)]
    ELSE m

BSendFails(c) == ~bconn[c].open

\* Mutant of BConnect: the counter is read and not advanced.
BConnectStale(c, id) ==
    /\ bconn[c].pc = "idle"
    /\ c > 1 => bconn[c - 1].pc # "idle"
    /\ Room
    /\ bconn' = [bconn EXCEPT ![c] = [pc |-> "new", id |-> id, cid |-> counter,
                                      open |-> TRUE, queue |-> <<>>,
                                      hb |-> "ticking"]]
    /\ counter' = counter
    /\ UNCHANGED <<busers, bpub, svars>>

\* handle_broadcast_socket: connection id from the counter, channel, writer
\* and ping task.  Upgrades arrive in index order.
BConnect(c, id) ==
    /\ bconn[c].pc = "idle"
    /\ c > 1 => bconn[c - 1].pc # "idle"
    /\ Room
    /\ bconn' = [bconn EXCEPT ![c] = [pc |-> "new", id |-> id, cid |-> counter,
                                      open |-> TRUE, queue |-> <<>>,
                                      hb |-> "ticking"]]
    /\ counter' = counter + 1
    /\ UNCHANGED <<busers, bpub, svars>>

\* The spawned task: push the Connection under the write lock.
BInsert(c) ==
    /\ bconn[c].pc = "new"
    /\ BWriteFree
    /\ busers' = Put(busers, bconn[c].id,
                     Append(OrDefault(busers, bconn[c].id, <<>>),
                            Connection(bconn[c].cid, c)))
    /\ bconn' = [bconn EXCEPT ![c].pc = "read"]
    /\ UNCHANGED <<bpub, counter, svars>>

\* Mutant of BReaderFrame: a frame that is no pong serves the head slot of
\* the identifier's single-mode FIFO.
BReaderFramePops(c, f) ==
    /\ bconn[c].pc = "read"
    /\ LET id == bconn[c].id
           serve == f.kind # "pong" /\ id \in DOMAIN callbacks
                    /\ callbacks[id] # <<>>
       IN IF serve
          THEN /\ callbacks' = [callbacks EXCEPT ![id] = PopFront(@).rest]
               /\ chan' = Deliver(chan, PopFront(callbacks[id]).slot, f.payload)
          ELSE UNCHANGED <<callbacks, chan>>
    /\ bconn' = IF f.kind = "close"
                THEN [bconn EXCEPT ![c].pc = "disc"] ELSE bconn
    /\ UNCHANGED <<busers, bpub, counter, users, conn, pub>>

\* One inbound frame: logged and dropped, whatever its kind.
BReaderFrame(c, f) ==
    /\ bconn[c].pc = "read"
    /\ bconn' = IF f.kind = "close"
                THEN [bconn EXCEPT ![c].pc = "disc"] ELSE bconn
    /\ UNCHANGED <<busers, bpub, counter, svars>>

\* The inbound stream ends or yields an error.
BReaderExit(c) ==
    /\ bconn[c].pc = "read"
    /\ bconn' = [bconn EXCEPT ![c].pc = "disc"]
    /\ UNCHANGED <<busers, bpub, counter, svars>>

\* broadcast_user_disconnected, under the write lock.
BDisconnect(c) ==
    /\ bconn[c].pc = "disc"
    /\ BWriteFree
    /\ busers' = BRemoveConns(busers, bconn[c].id, {bconn[c].cid})
    /\ bconn' = [bconn EXCEPT ![c].pc = "gone"]
    /\ UNCHANGED <<bpub, counter, svars>>

\* The ping task of a broadcast connection.
BHeartbeat(c) ==
    /\ bconn[c].hb = "ticking"
    /\ bconn[c].open
    /\ Pings(bconn[c].queue) < MaxPings
    /\ bconn' = [bconn EXCEPT ![c].queue = Append(@, Ping)]
    /\ UNCHANGED <<busers, bpub, counter, svars>>

\* The ping task of a broadcast connection at a tick after the writer has
\* gone.
BHeartbeatExit(c) ==
    /\ bconn[c].hb = "ticking"
    /\ ~bconn[c].open
    /\ bconn' = [bconn EXCEPT ![c].hb = "ended"]
    /\ UNCHANGED <<busers, bpub, counter, svars>>

BWriterForward(c) ==
    /\ bconn[c].open
    /\ bconn[c].queue # <<>>
    /\ bconn' = [bconn EXCEPT ![c].queue = Tail(@)]
    /\ UNCHANGED <<busers, bpub, counter, svars>>

BWriterExit(c) ==
    /\ bconn[c].open
    /\ bconn' = [bconn EXCEPT ![c].open = FALSE, ![c].queue = <<>>]
    /\ UNCHANGED <<busers, bpub, counter, svars>>

BDone(p, id, st, failed) ==
    [bpub EXCEPT ![p] = [IdleBPub EXCEPT !.pc = "done", !.id = id,
                                         !.status = st, !.failed = failed]]

BCanStart(p) ==
    /\ bpub[p].pc = "idle"
    /\ p > 1 => bpub[p - 1].pc # "idle"
    /\ Room

\* Missing or empty `id`: 400 before anything else.
BPubBadRequest(p) ==
    /\ BCanStart(p)
    /\ bpub' = BDone(p, "", 400, {})
    /\ UNCHANGED <<busers, bconn, counter, svars>>

\* Mutant of BPubStart: an absent identifier is answered 404.
BPubStartNotFound(p, id, ct, body) ==
    /\ BCanStart(p)
    /\ bpub' = IF Rejected(BContentTypeStr(ct), body) THEN BDone(p, id, 400, {})
               ELSE IF id \notin DOMAIN busers THEN BDone(p, id, 404, {})
               ELSE IF busers[id] = <<>> THEN BDone(p, id, 200, {})
               ELSE [bpub EXCEPT ![p] = [IdleBPub EXCEPT
                        !.pc = "pass", !.id = id, !.idx = 1,
                        !.msg = Encode(BContentTypeStr(ct), body)]]
    /\ UNCHANGED <<busers, bconn, counter, svars>>

\* broadcast_publish: build the message, take the read lock, look the
\* identifier up.
BPubStart(p, id, ct, body) ==
    /\ BCanStart(p)
    /\ bpub' = IF Rejected(BContentTypeStr(ct), body) THEN BDone(p, id, 400, {})
               ELSE IF id \notin DOMAIN busers \/ busers[id] = <<>>
               THEN BDone(p, id, 200, {})
               ELSE [bpub EXCEPT ![p] = [IdleBPub EXCEPT
                        !.pc = "pass", !.id = id, !.idx = 1,
                        !.msg = Encode(BContentTypeStr(ct), body)]]
    /\ UNCHANGED <<busers, bconn, counter, svars>>

\* What follows the send at position i of a list of length n: the next
\* send, the prune (some send failed), or the response.
BAfterSend(p, i, n, failed) ==
    IF i < n THEN [bpub EXCEPT ![p].idx = i + 1, ![p].failed = failed]
    ELSE IF failed # {}
    THEN [bpub EXCEPT ![p].pc = "prune", ![p].idx = 0, ![p].failed = failed,
                      ![p].msg = IdleBPub.msg]
    ELSE BDone(p, bpub[p].id, 200, {})

\* Mutant of BPubSend: the pass stops at the first send that succeeds.
BPubSendFirst(p) ==
    /\ bpub[p].pc = "pass"
    /\ LET list == busers[bpub[p].id]
           e == list[bpub[p].idx]
       IN IF BSendFails(e.tx)
          THEN /\ bpub' = BAfterSend(p, bpub[p].idx, Len(list),
                                     bpub[p].failed \cup {e.cid})
               /\ bconn' = bconn
          ELSE /\ bpub' = BAfterSend(p, Len(list), Len(list), bpub[p].failed)
               /\ bconn' = [bconn EXCEPT ![e.tx].queue = Append(@, bpub[p].msg)]
    /\ UNCHANGED <<busers, counter, svars>>

\* One iteration of the pass: send to the connection at position idx and
\* record its id when the send fails.
BPubSend(p) ==
    /\ bpub[p].pc = "pass"
    /\ LET list == busers[bpub[p].id]
           e == list[bpub[p].idx]
       IN IF BSendFails(e.tx)
          THEN /\ bpub' = BAfterSend(p, bpub[p].idx, Len(list),
                                     bpub[p].failed \cup {e.cid})
               /\ bconn' = bconn
          ELSE /\ bpub' = BAfterSend(p, bpub[p].idx, Len(list), bpub[p].failed)
               /\ bconn' = [bconn EXCEPT ![e.tx].queue = Append(@, bpub[p].msg)]
    /\ UNCHANGED <<busers, counter, svars>>

\* The prune: the failed connections are removed under the write lock.
BPubPrune(p) ==
    /\ bpub[p].pc = "prune"
    /\ BWriteFree
    /\ busers' = BRemoveConns(busers, bpub[p].id, bpub[p].failed)
    /\ bpub' = BDone(p, bpub[p].id, 200, bpub[p].failed)
    /\ UNCHANGED <<bconn, counter, svars>>

(* ---------------- specification ---------------------------------------- *)

PubStep(p) ==
    \/ PubSend(p)
    \/ PubReply(p)
    \/ PubClosed(p)
    \/ PubTimeout(p)
    \/ PubCleanup(p)

Next ==
    \/ \E c \in Conns, id \in Ids : Subscribe(c, id)
    \/ \E c \in Conns, f \in Frames : ReaderFrame(c, f)
    \/ \E c \in Conns : ReaderExit(c)
    \/ \E c \in Conns : DiscRemoveConn(c)
    \/ \E c \in Conns : DiscRemoveUser(c)
    \/ \E c \in Conns : DiscRemoveCallbacks(c)
    \/ \E c \in Conns : WriterForward(c)
    \/ \E c \in Conns : WriterExit(c)
    \/ \E p \in Pubs : PubBadRequest(p)
    \/ \E p \in Pubs, id \in Ids, ct \in ContentTypes, b \in Bodies : PubShot(p, id, ct, b)
    \/ \E p \in Pubs, id \in Ids, ct \in ContentTypes, b \in Bodies : PubPingPong(p, id, ct, b)
    \/ \E p \in Pubs : PubStep(p)

Spec == Init /\ [][Next]_vars

\* Spec with the scheduling of the publish handlers: a handler that can take
\* its next step (the send loop, the timed wait's outcome, the cleanup)
\* eventually takes it.
SpecFair == Spec /\ WF_vars(\E p \in Pubs : PubStep(p))

BNext ==
    \/ \E c \in BConns, id \in Ids : BConnect(c, id)
    \/ \E c \in BConns : BInsert(c)
    \/ \E c \in BConns, f \in Frames : BReaderFrame(c, f)
    \/ \E c \in BConns : BReaderExit(c)
    \/ \E c \in BConns : BDisconnect(c)
    \/ \E c \in BConns : BWriterForward(c)
    \/ \E c \in BConns : BWriterExit(c)
    \/ \E p \in BPubs : BPubBadRequest(p)
    \/ \E p \in BPubs, id \in Ids, ct \in ContentTypes, b \in Bodies : BPubStart(p, id, ct, b)
    \/ \E p \in BPubs : BPubSend(p)
    \/ \E p \in BPubs : BPubPrune(p)

SpecB == Init /\ [][BNext]_vars

AllNext ==
    \/ \E c \in Conns, id \in Ids2 : Subscribe(c, id)
    \/ \E c \in Conns, f \in Frames : ReaderFrame(c, f)
    \/ \E c \in Conns : ReaderExit(c)
    \/ \E c \in Conns : DiscRemoveConn(c)
    \/ \E c \in Conns : DiscRemoveUser(c)
    \/ \E c \in Conns : DiscRemoveCallbacks(c)
    \/ \E c \in Conns : WriterForward(c)
    \/ \E c \in Conns : WriterExit(c)
    \/ \E p \in Pubs : PubBadRequest(p)
    \/ \E p \in Pubs, id \in Ids2, ct \in ContentTypes, b \in Bodies : PubShot(p, id, ct, b)
    \/ \E p \in Pubs, id \in Ids2, ct \in ContentTypes, b \in Bodies : PubPingPong(p, id, ct, b)
    \/ \E p \in Pubs : PubStep(p)
    \/ \E c \in BConns, id \in Ids2 : BConnect(c, id)
    \/ \E c \in BConns : BInsert(c)
    \/ \E c \in BConns, f \in Frames : BReaderFrame(c, f)
    \/ \E c \in BConns : BReaderExit(c)
    \/ \E c \in BConns : BDisconnect(c)
    \/ \E c \in BConns : BWriterForward(c)
    \/ \E c \in BConns : BWriterExit(c)
    \/ \E p \in BPubs : BPubBadRequest(p)
    \/ \E p \in BPubs, id \in Ids2, ct \in ContentTypes, b \in Bodies : BPubStart(p, id, ct, b)
    \/ \E p \in BPubs : BPubSend(p)
    \/ \E p \in BPubs : BPubPrune(p)

\* Both modes on one identifier, with the heartbeat tasks of the connections.
HBNext ==
    \/ Next
    \/ BNext
    \/ \E c \in Conns : Heartbeat(c)
    \/ \E c \in Conns : HeartbeatExit(c)
    \/ \E c \in BConns : BHeartbeat(c)
    \/ \E c \in BConns : BHeartbeatExit(c)

SpecHB == Init /\ [][HBNext]_vars

SpecAll == Init /\ [][AllNext]_vars

(* ---------------- subscribe and disconnect from a given registry ------- *)

\* The last connection and request of each array are those already there
\* when the run begins; they take no step.  The others subscribe under
\* identifiers of their own and disconnect.
Resident == MaxTasks
RTConns == Conns \ {Resident}
RTBConns == BConns \ {Resident}

\* Registry states to start from: nothing; a subscriber of x; a subscriber
\* of x with a ping-pong request waiting for its reply; each with or
\* without a broadcast subscriber of x.
RTInit ==
    /\ \E single \in {"none", "conn", "waiting"} :
          /\ conn = [c \in Conns |->
                        IF c = Resident /\ single # "none"
                        THEN [pc |-> "read", id |-> "x", open |-> TRUE,
                              queue |-> <<>>, hb |-> "ticking"]
                        ELSE IdleConn]
          /\ users = IF single = "none" THEN EmptyMap
                     ELSE Put(EmptyMap, "x", {Resident})
          /\ pub = [p \in Pubs |->
                        IF p = Resident /\ single = "waiting"
                        THEN [IdlePub EXCEPT !.pc = "wait", !.id = "x",
                                             !.mode = "ping_pong", !.sentTo = Resident]
                        ELSE IdlePub]
          /\ callbacks = IF single = "waiting"
                         THEN PushSlot(EmptyMap, "x", Resident) ELSE EmptyMap
    /\ chan = [p \in Pubs |-> Pending]
    /\ \E broad \in BOOLEAN :
          /\ bconn = [c \in BConns |->
                         IF c = Resident /\ broad
                         THEN [pc |-> "read", id |-> "x", cid |-> 0, open |-> TRUE,
                               queue |-> <<>>, hb |-> "ticking"]
                         ELSE IdleBConn]
          /\ busers = IF broad THEN Put(EmptyMap, "x", <<Connection(0, Resident)>>)
                      ELSE EmptyMap
          /\ counter = IF broad THEN 1 ELSE 0
    /\ bpub = [p \in BPubs |-> IdleBPub]

\* No connection of the run has subscribed under id.
RTFresh(id) ==
    /\ \A c \in RTConns : conn[c].id # id
    /\ \A c \in RTBConns : bconn[c].id # id

\* A client leaves by sending a close frame, or its stream ends.
RTNext ==
    \/ \E c \in RTConns, id \in Ids2 : RTFresh(id) /\ Subscribe(c, id)
    \/ \E c \in RTConns : ReaderFrame(c, Msg("close", <<>>))
    \/ \E c \in RTConns : ReaderExit(c)
    \/ \E c \in RTConns : DiscRemoveConn(c)
    \/ \E c \in RTConns : DiscRemoveUser(c)
    \/ \E c \in RTConns : DiscRemoveCallbacks(c)
    \/ \E c \in RTBConns, id \in Ids2 : RTFresh(id) /\ BConnect(c, id)
    \/ \E c \in RTBConns : BInsert(c)
    \/ \E c \in RTBConns : BReaderFrame(c, Msg("close", <<>>))
    \/ \E c \in RTBConns : BReaderExit(c)
    \/ \E c \in RTBConns : BDisconnect(c)

SpecRT == RTInit /\ [][RTNext]_vars

(* ---------------- properties ------------------------------------------- *)

InFifo(p) == \E id \in DOMAIN callbacks : p \in SlotsOf(callbacks[id])

\* Every connection that subscribed to id has finished its disconnect handler.
AllGone(id) ==
    /\ \E c \in Conns : conn[c].id = id
    /\ \A c \in Conns : conn[c].id = id => conn[c].pc = "gone"

\* C1: a shot publish that returns 200 enqueued its message on at least one
\* queue of the identifier that was open at that moment, and a shot whose
\* enqueue fails on every connection registered for the identifier returns
\* 404, not 200.
C1_ShotOkMeansEnqueued ==
    [][\A p \in Pubs :
        (pub[p].pc = "idle" /\ pub'[p].pc # "idle" /\ pub'[p].mode = "shot"
            /\ pub'[p].id \in DOMAIN users)
        => /\ (pub'[p].pc = "done" /\ pub'[p].status = 200)
                => \E c \in users[pub'[p].id] :
                      /\ conn[c].open
                      /\ Len(conn'[c].queue) = Len(conn[c].queue) + 1
           /\ (pub'[p].status # 400 /\ users[pub'[p].id] # {}
                  /\ \A c \in users[pub'[p].id] : ~conn[c].open)
                => (pub'[p].pc = "done" /\ pub'[p].status = 404)
      ]_vars

\* C2: a shot publish to an identifier with two or more live subscribers
\* enqueues the message on exactly one of the identifier's queues.
C2_ShotIsUnicast ==
    [][\A p \in Pubs :
        (pub[p].pc = "idle" /\ pub'[p].pc = "done" /\ pub'[p].mode = "shot"
            /\ pub'[p].status = 200 /\ pub'[p].id \in DOMAIN users
            /\ Cardinality({c \in users[pub'[p].id] : conn[c].open}) >= 2)
        => Cardinality({c \in Conns : conn'[c].queue # conn[c].queue}) = 1
      ]_vars

\* C3: every ping-pong publish with a non-empty id and an encodable body
\* completes (it always has a step to take until it has returned), and it
\* returns one of 200 with the reply, 204, 408, 404.
C3_PingPongCompletes ==
    \A p \in Pubs :
        pub[p].mode = "ping_pong"
        => /\ pub[p].pc # "done" => ENABLED PubStep(p)
           /\ (pub[p].pc = "done" /\ pub[p].status # 400)
                => pub[p].status \in {200, 204, 408, 404}

\* C4: a text or binary frame read while a waiting publisher's slot is at the
\* head of the identifier's FIFO is delivered to that publisher, which then
\* returns 200 with the frame's payload as its body.
C4_HeadSlotGetsReply ==
    [][/\ \A c \in Conns :
            (/\ conn[c].pc = "read"
             /\ conn[c].id \in DOMAIN callbacks
             /\ callbacks[conn[c].id] # <<>>
             /\ pub[Head(callbacks[conn[c].id])].pc = "wait")
            => \A f \in {g \in Frames : g.kind \in {"text", "binary"}} :
                  ReaderFrame(c, f)
                  => chan'[Head(callbacks[conn[c].id])] = Value(f.payload)
       /\ \A p \in Pubs :
            (pub[p].pc = "wait" /\ chan[p].st = "value" /\ pub'[p] # pub[p])
            => /\ pub'[p].pc = "done"
               /\ pub'[p].status = 200
               /\ pub'[p].body = chan[p].val
      ]_vars

C4_Witness ==
    \E p \in Pubs :
        pub[p].pc = "done" /\ pub[p].status = 200 /\ pub[p].body = <<1>>

\* C5: a ping-pong publish that times out returns 408, and once it has
\* returned no FIFO holds a slot with its slot id.
C5_TimeoutRemovesSlot ==
    /\ [](\A p \in Pubs :
            (pub[p].pc = "done" /\ pub[p].status = 408) => ~InFifo(p))
    /\ [][\A p \in Pubs :
            (pub[p].pc = "timeout" /\ pub'[p] # pub[p])
            => (pub'[p].pc = "done" /\ pub'[p].status = 408 /\ ~InFifo(p)')
         ]_vars

\* A timed-out publish has returned while another slot is still queued.
C5_Witness ==
    \E p \in Pubs :
        /\ pub[p].pc = "done" /\ pub[p].status = 408
        /\ pub[p].id \in DOMAIN callbacks
        /\ callbacks[pub[p].id] # <<>>

\* C6: a ping-pong publish whose enqueue fails on every connection of a
\* registered identifier returns 404, and once it has returned its reply slot
\* is in no FIFO.
C6_FailedEnqueuePopsSlot ==
    \A p \in Pubs :
        pub[p].mode = "ping_pong"
        => /\ pub[p].pc # "remove_user"
           /\ (pub[p].pc = "done" /\ pub[p].status = 404) => ~InFifo(p)

\* C7: once every subscriber of the identifier has disconnected, a publisher
\* that was waiting on a slot of the identifier's FIFO is not left pending:
\* the FIFO is removed, the removal closes the channel of every waiting slot
\* in it, and a publisher whose channel is closed returns 204 at once.
C7_DisconnectUnblocksWaiters ==
    /\ [](\A p \in Pubs :
            (pub[p].pc = "wait" /\ AllGone(pub[p].id))
            => (pub[p].id \notin DOMAIN callbacks /\ chan[p].st # "pending"))
    /\ [][/\ \A c \in Conns :
              (/\ conn[c].pc = "rm_cb"
               /\ conn[c].id \in DOMAIN callbacks
               /\ DiscRemoveCallbacks(c))
              => \A p \in SlotsOf(callbacks[conn[c].id]) :
                    (pub[p].pc = "wait" /\ chan[p].st = "pending")
                    => chan'[p] = Closed
          /\ \A p \in Pubs :
              (pub[p].pc = "wait" /\ chan[p].st = "closed" /\ pub'[p] # pub[p])
              => (pub'[p].pc = "done" /\ pub'[p].status = 204)
         ]_vars

C7_Witness ==
    \E p \in Pubs :
        /\ pub[p].pc = "done" /\ pub[p].status = 204
        /\ AllGone(pub[p].id)

\* C8: a ping-pong publish returns 204 only if the connection whose queue
\* received its request has disconnected: never while that connection's
\* reader is still running.
C8_NoContentOnlyIfTargetGone ==
    [][\A p \in Pubs :
        (pub[p].pc = "wait" /\ pub'[p].pc = "done" /\ pub'[p].status = 204)
        => conn[pub[p].sentTo].pc # "read"
      ]_vars

\* C9: a shot or ping-pong publish to an identifier that is absent from
\* ONLINE_USERS returns 404 and changes nothing: no queue, no identifier
\* entry, no FIFO, no reply channel.
C9_AbsentIdIsNotFound ==
    [][\A p \in Pubs :
        (pub[p].pc = "idle" /\ pub'[p].pc # "idle" /\ pub'[p].id \in Ids
            /\ pub'[p].id \notin DOMAIN users)
        => /\ pub'[p].pc = "done"
           /\ pub'[p].status = 404
           /\ UNCHANGED <<users, callbacks, conn, chan>>
      ]_vars

C9_Witness ==
    \E p, q \in Pubs :
        /\ pub[p].pc = "done" /\ pub[p].status = 404 /\ pub[p].mode = "ping_pong"
        /\ pub[q].pc = "done" /\ pub[q].status = 404 /\ pub[q].mode = "shot"
        /\ pub[q].id \in Ids
        /\ users = EmptyMap /\ callbacks = EmptyMap

\* No connection of id is left and no publish is in flight.
Quiescent(id) ==
    /\ AllGone(id)
    /\ \A p \in Pubs : pub[p].pc \in {"idle", "done"}

\* C10: after all subscribers of an identifier have disconnected and every
\* disconnect handler and in-flight publish has finished, the identifier is
\* absent from ONLINE_USERS and from CALLBACK_CHANNELS.
C10_QuiescentIsClean ==
    \A id \in Ids :
        Quiescent(id) => (id \notin DOMAIN users /\ id \notin DOMAIN callbacks)

\* Two subscribers are gone and a ping-pong publish to them has come back.
C10_Witness ==
    /\ Quiescent("x")
    /\ Cardinality({c \in Conns : conn[c].pc = "gone"}) >= 2
    /\ \E p \in Pubs : pub[p].mode = "ping_pong" /\ pub[p].status \in {200, 204, 408}

\* C11: the count reported for an identifier equals the number of its
\* connections that were registered and not yet removed; in particular every
\* connection that is still reading, with its queue open (so neither its
\* disconnect handler nor a prune has removed it), is counted, and the exit
\* of another connection's reader does not take it out of the count.
C11_CountCoversLiveConns ==
    \A id \in Ids :
        Count(id) >= Cardinality({c \in Conns : /\ conn[c].id = id
                                                /\ conn[c].pc = "read"
                                                /\ conn[c].open})

\* The list a broadcast publish is passing over, and the entry it is at.
BList(p) == OrDefault(busers, bpub[p].id, <<>>)

\* C12: a broadcast publish with a non-empty id and an encodable body
\* returns 200, whether the identifier is absent, every recipient's queue is
\* closed, or some are closed and some open; and it is never left without a
\* step to take before it has returned.
C12_BroadcastAlwaysOk ==
    /\ []((\E p \in BPubs : bpub[p].pc \in {"pass", "prune"})
            => ENABLED (\E p \in BPubs : BPubSend(p) \/ BPubPrune(p)))
    /\ [][\A p \in BPubs :
            /\ \A id \in Ids, ct \in ContentTypes, b \in Bodies :
                  (~Rejected(ct, b) /\ BPubStart(p, id, ct, b))
                  => \/ bpub'[p].pc = "pass"
                     \/ bpub'[p].pc = "done" /\ bpub'[p].status = 200
            /\ (bpub[p].pc \in {"pass", "prune"} /\ bpub'[p].pc = "done")
                  => bpub'[p].status = 200
         ]_vars

\* Every recipient's queue was closed: the publish pruned the whole list.
C12_Witness ==
    \E p \in BPubs :
        /\ bpub[p].pc = "done" /\ bpub[p].status = 200
        /\ bpub[p].failed # {}
        /\ bpub[p].id \notin DOMAIN busers

\* C13: the pass of a broadcast publish visits every position of the
\* identifier's list once, in order; at each it appends one copy of the
\* message to the connection's queue when the queue is open and records the
\* connection as failed when it is closed; no other queue changes; and no
\* connection is listed twice.
C13_BroadcastReachesAll ==
    /\ [](/\ \A p \in BPubs : bpub[p].pc = "pass"
                  => bpub[p].idx \in 1..Len(BList(p))
          /\ \A id \in DOMAIN busers : \A i, j \in 1..Len(busers[id]) :
                  busers[id][i].tx = busers[id][j].tx => i = j)
    /\ [][\A p \in BPubs :
            (bpub[p].pc = "pass" /\ bpub'[p] # bpub[p])
            => LET i == bpub[p].idx
                   e == BList(p)[i]
               IN /\ busers' = busers
                  /\ \A c \in BConns :
                        bconn'[c].queue =
                            IF c = e.tx /\ bconn[c].open
                            THEN Append(bconn[c].queue, bpub[p].msg)
                            ELSE bconn[c].queue
                  /\ ~bconn[e.tx].open => e.cid \in bpub'[p].failed
                  /\ IF i < Len(BList(p))
                     THEN bpub'[p].pc = "pass" /\ bpub'[p].idx = i + 1
                     ELSE bpub'[p].pc \in {"prune", "done"}
         ]_vars

\* A pass over two connections has left its message in both queues.
C13_Witness ==
    \E p \in BPubs : \E c1, c2 \in BConns :
        /\ c1 # c2
        /\ bpub[p].pc = "done" /\ bpub[p].status = 200
        /\ bconn[c1].queue # <<>>
        /\ bconn[c2].queue # <<>>

\* C14: the prune of a broadcast publish removes from the identifier's list
\* the connections whose enqueue failed and no other; once the publish has
\* completed none of them is in the list; and an identifier whose list
\* became empty is deleted.
C14_PruneRemovesFailedOnly ==
    /\ [](/\ \A p \in BPubs : bpub[p].pc = "done"
                  => \A i \in 1..Len(BList(p)) :
                        BList(p)[i].cid \notin bpub[p].failed
          /\ \A id \in DOMAIN busers : busers[id] # <<>>)
    /\ [][\A p \in BPubs :
            (bpub[p].pc = "prune" /\ bpub'[p].pc = "done")
            => /\ bpub'[p].failed = bpub[p].failed
               /\ \A i \in 1..Len(BList(p)) :
                     BList(p)[i].cid \notin bpub[p].failed
                     => /\ bpub[p].id \in DOMAIN busers'
                        /\ \E j \in 1..Len(busers'[bpub[p].id]) :
                              busers'[bpub[p].id][j] = BList(p)[i]
         ]_vars

\* A publish pruned a closed connection and left an open one in the list.
C14_Witness ==
    \E p \in BPubs : \E c \in BConns :
        /\ bpub[p].pc = "done" /\ bpub[p].failed # {}
        /\ bpub[p].id \in DOMAIN busers
        /\ bconn[c].pc = "read" /\ bconn[c].open
        /\ bconn[c].queue # <<>>
        /\ \E i \in 1..Len(BList(p)) : BList(p)[i].tx = c

\* C15: removing a connection that is already gone from the registry is a
\* no-op.  In the single registry: a disconnect handler that finds its
\* connection already removed (by a publish's prune, or with the whole
\* identifier) ends there, leaving ONLINE_USERS and CALLBACK_CHANNELS as
\* they were and going on to no further removal.
C15_RePruneIsNoOp ==
    [][\A c \in Conns :
        (/\ conn[c].pc = "disc"
         /\ conn'[c].pc # "disc"
         /\ ~(conn[c].id \in DOMAIN users /\ c \in users[conn[c].id]))
        => /\ conn'[c].pc = "gone"
           /\ users' = users
           /\ callbacks' = callbacks
      ]_vars

\* The registries as they were when the run began.
RTUsersBefore ==
    IF conn[Resident].pc = "read" THEN Put(EmptyMap, "x", {Resident}) ELSE EmptyMap
RTCallbacksBefore ==
    IF pub[Resident].pc = "wait" THEN PushSlot(EmptyMap, "x", Resident) ELSE EmptyMap
RTBusersBefore ==
    IF bconn[Resident].pc = "read"
    THEN Put(EmptyMap, "x", <<Connection(0, Resident)>>) ELSE EmptyMap

\* Some connection of the run has subscribed and all of them have finished
\* their disconnect handlers.
RTAllGone ==
    /\ \E c \in RTConns : conn[c].pc # "idle" \/ bconn[c].pc # "idle"
    /\ \A c \in RTConns : conn[c].pc \in {"idle", "gone"}
    /\ \A c \in RTBConns : bconn[c].pc \in {"idle", "gone"}

\* C16: once connections that subscribed under distinct identifiers have
\* all disconnected, ONLINE_USERS, CALLBACK_CHANNELS and BROADCAST_USERS are
\* as they were before the subscriptions.
C16_RoundTripRestores ==
    RTAllGone => /\ users = RTUsersBefore
                 /\ callbacks = RTCallbacksBefore
                 /\ busers = RTBusersBefore

\* The place of slot p in FIFO q.
Pos(q, p) == CHOOSE i \in 1..Len(q) : q[i] = p

\* C17: the FIFO of an identifier keeps its slots in push order (a push adds
\* at the tail, a removal keeps the order of the rest), a reply is only ever
\* delivered to the slot at the head, and a data frame read while the FIFO
\* is not empty removes exactly the head.
C17_SlotsServedInPushOrder ==
    [][\A id \in Ids :
        LET q == OrDefault(callbacks, id, <<>>)
            r == OrDefault(callbacks', id, <<>>)
        IN IF r = q
           THEN \A p \in SlotsOf(q) :
                    ~(chan[p].st = "pending" /\ chan'[p].st = "value")
           ELSE /\ \A i, j \in 1..Len(r) : r[i] = r[j] => i = j
                /\ \A a \in SlotsOf(q) \cap SlotsOf(r) : \A b \in SlotsOf(r) :
                      /\ (b \in SlotsOf(q) /\ Pos(q, a) < Pos(q, b))
                            => Pos(r, a) < Pos(r, b)
                      /\ b \notin SlotsOf(q) => Pos(r, a) < Pos(r, b)
                /\ \A p \in SlotsOf(q) :
                      (chan[p].st = "pending" /\ chan'[p].st = "value")
                      => (p = Head(q) /\ r = Tail(q))
                /\ \A c \in Conns :
                      (conn[c].pc = "read" /\ conn[c].id = id /\ q # <<>>)
                      => \A f \in {g \in Frames : g.kind \in {"text", "binary"}} :
                            ReaderFrame(c, f) => r = Tail(q)
      ]_vars

\* Two requests were pushed one after the other; the first has its reply
\* and the second is now at the head.
C17_Witness ==
    \E p1, p2 \in Pubs : \E c \in Conns :
        /\ p1 < p2
        /\ pub[p1].pc = "done" /\ pub[p1].status = 200
        /\ pub[p2].pc = "wait" /\ chan[p2].st = "pending"
        /\ pub[p2].id = pub[p1].id
        /\ pub[p2].id \in DOMAIN callbacks
        /\ callbacks[pub[p2].id] = <<p2>>
        /\ Len(conn[c].queue) = 2

\* C18: a publish answered 400 (no id, or a text or JSON content type with
\* a body that is not UTF-8), on the single or the broadcast endpoint,
\* changes nothing but its own response: no queue, no registry entry, no
\* FIFO, no reply channel; and its slot is in no FIFO.
C18_BadRequestChangesNothing ==
    /\ [](\A p \in Pubs : (pub[p].pc = "done" /\ pub[p].status = 400)
                             => ~InFifo(p))
    /\ [][/\ \A p \in Pubs :
                (pub[p].pc # "done" /\ pub'[p].pc = "done" /\ pub'[p].status = 400)
                => /\ UNCHANGED <<users, callbacks, conn, chan, bvars>>
                   /\ \A q \in Pubs \ {p} : pub'[q] = pub[q]
          /\ \A p \in BPubs :
                (bpub[p].pc # "done" /\ bpub'[p].pc = "done" /\ bpub'[p].status = 400)
                => /\ UNCHANGED <<busers, bconn, counter, svars>>
                   /\ \A q \in BPubs \ {p} : bpub'[q] = bpub[q]
         ]_vars

\* Both endpoints have rejected a body that is not UTF-8, sent as text to an
\* identifier.
C18_Witness ==
    \E p \in Pubs, q \in BPubs :
        /\ pub[p].pc = "done" /\ pub[p].status = 400 /\ pub[p].id \in Ids2
        /\ bpub[q].pc = "done" /\ bpub[q].status = 400 /\ bpub[q].id \in Ids2

\* The frame the content type and the body call for: text for a content
\* type beginning with application/json or text/ and a UTF-8 body, nothing
\* for such a content type and any other body, binary with the body's bytes
\* for every other content type, a missing one included.
NoFrame == Msg("none", <<>>)
RoutedFrame(ct, b) ==
    IF StartsWith(ct, PrefixJson) \/ StartsWith(ct, PrefixText)
    THEN IF IsUtf8(b) THEN Msg("text", b) ELSE NoFrame
    ELSE Msg("binary", b)

\* Every queue that changed in the step grew by exactly the frame m.
OnlyAppends(old, new, m) ==
    \A c \in DOMAIN old :
        new[c].queue # old[c].queue
        => (m # NoFrame /\ new[c].queue = Append(old[c].queue, m))

\* C19: in shot, ping-pong and broadcast publishes alike, the frame that is
\* enqueued is the one the content type and the body call for, and nothing
\* is enqueued when they call for none.
C19_ContentTypeRouting ==
    [][/\ \A p \in Pubs :
            /\ (pub[p].pc = "idle" /\ pub'[p].pc # "idle")
                  => \A id \in Ids2, ct \in ContentTypes, b \in Bodies :
                        /\ PubShot(p, id, ct, b)
                              => OnlyAppends(conn, conn', RoutedFrame(ct, b))
                        /\ PubPingPong(p, id, ct, b)
                              => /\ conn' = conn
                                 /\ pub'[p].pc = "pushed"
                                       => pub'[p].msg = RoutedFrame(ct, b)
            /\ (pub[p].pc = "pushed" /\ pub'[p] # pub[p])
                  => OnlyAppends(conn, conn', pub[p].msg)
       /\ \A p \in BPubs :
            /\ (bpub[p].pc = "idle" /\ bpub'[p].pc # "idle")
                  => \A id \in Ids2, ct \in ContentTypes, b \in Bodies :
                        BPubStart(p, id, ct, b)
                        => /\ bconn' = bconn
                           /\ bpub'[p].pc = "pass"
                                 => bpub'[p].msg = RoutedFrame(ct, b)
            /\ (bpub[p].pc = "pass" /\ bpub'[p] # bpub[p])
                  => OnlyAppends(bconn, bconn', bpub[p].msg)
      ]_vars

\* A broadcast connection holds the byte 0xFF as a binary frame, and the
\* same body sent as text was rejected.
C19_Witness ==
    \E d \in BConns, q \in BPubs :
        /\ bconn[d].queue = <<Msg("binary", <<255>>)>>
        /\ bpub[q].pc = "done" /\ bpub[q].status = 400 /\ bpub[q].id \in Ids2

\* What the registries hold for identifier id: its connection set, its
\* FIFO, its broadcast list, and the queues of its connections.
IdState(id) ==
    << id \in DOMAIN users, OrDefault(users, id, {}),
       id \in DOMAIN callbacks, OrDefault(callbacks, id, <<>>),
       id \in DOMAIN busers, OrDefault(busers, id, <<>>),
       [c \in Conns |-> IF conn[c].id = id THEN conn[c].queue ELSE <<>>],
       [c \in BConns |-> IF bconn[c].id = id THEN bconn[c].queue ELSE <<>>] >>

\* C20: a step taken for one identifier (a subscribe, a disconnect, a
\* publish, a prune) leaves what the registries hold for every other
\* identifier, and the queues of its connections, unchanged; no step
\* changes the state of two identifiers.
C20_OtherIdsUntouched ==
    [][\A y \in Ids2 :
        /\ \A c \in Conns :
              (conn'[c].pc # conn[c].pc /\ conn'[c].id # y)
              => IdState(y)' = IdState(y)
        /\ \A p \in Pubs :
              (pub'[p] # pub[p] /\ pub'[p].id # y) => IdState(y)' = IdState(y)
        /\ \A c \in BConns :
              (bconn'[c].pc # bconn[c].pc /\ bconn'[c].id # y)
              => IdState(y)' = IdState(y)
        /\ \A p \in BPubs :
              (bpub'[p] # bpub[p] /\ bpub'[p].id # y) => IdState(y)' = IdState(y)
        /\ \A x \in Ids2 \ {y} :
              IdState(x)' # IdState(x) => IdState(y)' = IdState(y)
      ]_vars

\* A subscriber of x has a published message in its queue while y has a
\* subscriber of its own.
C20_Witness ==
    \E c, d \in Conns :
        /\ conn[c].id = "x" /\ conn[c].queue # <<>>
        /\ conn[d].id = "y" /\ conn[d].pc = "read"
        /\ "y" \in DOMAIN users /\ d \in users["y"]

(* ---------------- concurrent subscribes -------------------------------- *)

\* The connections that subscribed to id, in single and in broadcast mode.
SubscribersOf(id) == {c \in Conns : conn[c].id = id}
BSubscribersOf(id) == {c \in BConns : bconn[c].id = id}

\* Positions of connection c in the broadcast list of id.
BPositions(id, c) ==
    IF id \in DOMAIN busers
    THEN {i \in 1..Len(busers[id]) : busers[id][i] = Connection(bconn[c].cid, c)}
    ELSE {}

\* C21: when none of the connections that subscribed to an identifier has
\* disconnected (each is still in its reader loop with its writer alive),
\* every one of them that has done its insert is registered under the
\* identifier, in the single registry and, exactly once, in the broadcast
\* list: no insert overwrote or lost another.
C21_ConcurrentSubscribesAllRegistered ==
    \A id \in Ids2 :
        /\ (\A c \in SubscribersOf(id) : conn[c].pc = "read" /\ conn[c].open)
              => /\ SubscribersOf(id) # {} => id \in DOMAIN users
                 /\ \A c \in SubscribersOf(id) : c \in users[id]
        /\ (\A c \in BSubscribersOf(id) :
                bconn[c].pc \in {"new", "read"} /\ bconn[c].open)
              => \A c \in BSubscribersOf(id) :
                    bconn[c].pc = "read" => Cardinality(BPositions(id, c)) = 1

\* Two connections subscribed to one identifier in single mode and one in
\* broadcast mode, none disconnected, all registered.
C21_Witness ==
    \E id \in Ids2 :
        /\ Cardinality(SubscribersOf(id)) >= 2
        /\ \A c \in SubscribersOf(id) : conn[c].pc = "read" /\ conn[c].open
        /\ SubscribersOf(id) = users[id]
        /\ \E c \in BSubscribersOf(id) :
              bconn[c].pc = "read" /\ bconn[c].open /\ BPositions(id, c) # {}

(* ---------------- a registered connection stays registered ------------- *)

\* Connection c is found under its identifier in ONLINE_USERS.
Registered(c) == conn[c].id \in DOMAIN users /\ c \in users[conn[c].id]

\* C22: a registered single-mode connection whose reader is still in its loop
\* and whose queue is open is still registered after any step of any task;
\* in particular the disconnect handler of another connection does not
\* remove it or its identifier's entry.
C22_RegisteredUntilOwnExit ==
    [][\A c \in Conns :
          (conn[c].pc = "read" /\ conn[c].open /\ Registered(c))
              => Registered(c)']_vars

(* ---------------- emptied identifiers ---------------------------------- *)

\* Some task that removed the last connection of id has not finished: a
\* disconnect handler before one of its two removes, or a publisher at its
\* ONLINE_USERS.remove that can go on.
Removing(id) ==
    \/ \E c \in Conns : conn[c].id = id /\ conn[c].pc \in {"rm_user", "rm_cb"}
    \/ \E p \in Pubs : pub[p].id = id /\ pub[p].pc = "remove_user"
                       /\ ENABLED PubStep(p)

\* C23: once the operation that removed the last connection of an
\* identifier has finished, the single registry keeps neither an entry with
\* zero connections nor a FIFO for an identifier without connections.
C23_EmptiedIdIsDeleted ==
    \A id \in Ids :
        ~Removing(id) =>
            /\ id \in DOMAIN users => users[id] # {}
            /\ id \in DOMAIN callbacks => Count(id) > 0

(* ---------------- closed connections and the next publish -------------- *)

\* Publish p has passed its send loop and returned.
Completed(p) == pub[p].pc = "done" /\ pub[p].status \in {200, 204, 408}

\* C24: if a registered connection's queue is closed while publish p has not
\* begun, then whenever p has completed as a publish to the connection's
\* identifier, the connection is no longer registered (stated for a
\* connection whose reader is still in its loop, so that nothing but a
\* publish could have removed it).
C24_ClosedConnPrunedByNextPublish ==
    \A c \in Conns, p \in Pubs :
        []((Registered(c) /\ ~conn[c].open /\ pub[p].pc = "idle")
              => []((Completed(p) /\ pub[p].id = conn[c].id /\ conn[c].pc = "read")
                       => ~Registered(c)))

(* ---------------- registry locks --------------------------------------- *)

\* C25: a publish that found every connection closed and is at its
\* ONLINE_USERS.remove has a step to take (it goes on to return a status),
\* and a disconnect handler kept out by a publisher's read guard waits for a
\* publisher that has a step to take: no task waits for a registry lock
\* that is never released.
C25_NoTaskWaitsForever ==
    /\ \A p \in Pubs : pub[p].pc = "remove_user" => ENABLED PubStep(p)
    /\ \A c \in Conns :
          (conn[c].pc \in {"disc", "rm_user"} /\ ~WriteFree(conn[c].id))
              => \E p \in Readers(conn[c].id) : ENABLED PubStep(p)

(* ---------------- broadcast lists are never empty ---------------------- *)

\* C26: every identifier present in BROADCAST_USERS maps to a non-empty list.
C26_NoEmptyBroadcastList ==
    \A id \in DOMAIN busers : Len(busers[id]) > 0

\* The last connection of an identifier has been removed, by its disconnect
\* handler or by a publish's prune, and the identifier is gone with it.
C26_Witness ==
    \E c \in BConns :
        /\ bconn[c].pc \in {"read", "gone"}
        /\ bconn[c].id \notin DOMAIN busers

(* ---------------- who answers a request -------------------------------- *)

\* C27: a step that delivers a frame to the slot of a waiting publisher is
\* the reading of a frame from the connection on whose queue that publisher
\* enqueued its request.
C27_ReplyComesFromTarget ==
    [][\A p \in Pubs :
          (pub[p].pc = "wait" /\ chan[p].st = "pending" /\ chan'[p].st = "value")
              => \E f \in Frames : ReaderFrame(pub[p].sentTo, f)]_vars

(* ---------------- two publishers, one subscriber ----------------------- *)

\* C28: when a ping-pong publisher enqueues its request on the queue of the
\* identifier's only subscriber, every publisher whose slot is ahead of its
\* own in the FIFO has enqueued its request already: slots enter the FIFO
\* in the order the requests enter the queue.
C28_SlotOrderIsRequestOrder ==
    [][\A p \in Pubs :
          (pub[p].pc = "pushed" /\ pub'[p].pc = "wait"
           /\ Cardinality(users[pub[p].id]) = 1
           /\ pub[p].id \in DOMAIN callbacks
           /\ p \in SlotsOf(callbacks[pub[p].id]))
              => \A q \in SlotsOf(callbacks[pub[p].id]) \ {p} :
                    pub[q].pc = "pushed"
                        => Pos(callbacks[pub[p].id], p) < Pos(callbacks[pub[p].id], q)]_vars

(* ---------------- queue order ------------------------------------------ *)

\* One step of a queue: nothing, a message added at the tail, the head
\* taken by the writer, or everything dropped with the receiver.
QueueStep(old, new, openAfter) ==
    \/ new = old
    \/ \E m \in {Ping} \cup {Msg(k, b) : k \in {"text", "binary"}, b \in Bodies} :
          new = Append(old, m)
    \/ old # <<>> /\ new = Tail(old)
    \/ ~openAfter /\ new = <<>>

\* C29: within one connection the queue is first-in first-out: every step
\* of a publish or of a heartbeat adds its message at the tail, and the
\* writer takes the head, so messages leave towards the socket in the order
\* they were enqueued.
C29_QueueIsFifo ==
    [][/\ \A c \in Conns :
             QueueStep(conn[c].queue, conn'[c].queue, conn'[c].open)
       /\ \A c \in BConns :
             QueueStep(bconn[c].queue, bconn'[c].queue, bconn'[c].open)]_vars

\* A single-mode queue holding a heartbeat ping and, behind it, a published
\* message, and a broadcast queue holding a ping.
C29_Witness ==
    /\ \E c \in Conns : Len(conn[c].queue) = 2 /\ conn[c].queue[1] = Ping
                        /\ conn[c].queue[2] # Ping
    /\ \E c \in BConns : Pings(bconn[c].queue) > 0

(* ---------------- what a publish may remove ---------------------------- *)

\* Broadcast connection c is in the list of its identifier.
BRegistered(c) == BPositions(bconn[c].id, c) # {}

\* C30: a step of a publish removes from the registry only connections
\* whose queue is closed: in single mode those its send loop failed on in
\* that step, in broadcast mode those whose ids its pass recorded as failed;
\* a connection whose queue is open is never removed by a publish, whatever
\* subscribes or disconnects between the pass and the prune.
C30_PublishRemovesOnlyFailed ==
    [][/\ \A p \in Pubs : pub'[p] # pub[p] =>
             \A c \in Conns :
                 (Registered(c) /\ ~Registered(c)') => ~conn[c].open
       /\ \A p \in BPubs : bpub'[p] # bpub[p] =>
             \A c \in BConns :
                 (BRegistered(c) /\ ~BRegistered(c)')
                     => /\ ~bconn[c].open
                        /\ bconn[c].cid \in bpub[p].failed]_vars

\* A broadcast publish has pruned a closed connection, and a connection
\* that subscribed after the pruned one and holds nothing of the publish in
\* its queue is in the list with its queue open.
C30_Witness ==
    \E p \in BPubs : \E c \in BConns :
        /\ bpub[p].pc = "done" /\ bpub[p].failed # {}
        /\ bconn[c].id = bpub[p].id
        /\ bconn[c].pc = "read" /\ bconn[c].open
        /\ bconn[c].queue = <<>>
        /\ bconn[c].cid \notin bpub[p].failed
        /\ \A d \in BConns :
              (bconn[d].pc # "idle" /\ bconn[d].cid \in bpub[p].failed)
                  => bconn[d].cid < bconn[c].cid
        /\ BRegistered(c)

(* ---------------- which frames consume a slot -------------------------- *)

\* C31: the reading of a pong, ping or close frame pops no slot and
\* delivers nothing to a publisher; a close frame only ends the reader loop.
C31_OnlyDataFramesConsumeSlots ==
    [][\A c \in Conns : \A f \in Frames :
          (f.kind \in {"pong", "ping", "close"} /\ ReaderFrame(c, f))
              => callbacks' = callbacks /\ chan' = chan]_vars

(* ---------------- the "!" text frame ----------------------------------- *)

\* The legacy heartbeat payload: the single byte "!".
HEART_BEATE == <<33>>

C33_BroadcastFramesDiscarded ==
    [][\A c \in BConns : \A f \in Frames :
          (f.kind \in {"text", "binary"} /\ BReaderFrame(c, f))
              => UNCHANGED <<users, callbacks, chan, conn, pub, busers, bpub>>
                 /\ \A d \in BConns : bconn'[d].queue = bconn[d].queue]_vars

\* A broadcast subscriber of an identifier is in its reader loop while a
\* ping-pong publisher waits for a reply under the same identifier.
C33_Witness ==
    \E c \in BConns : \E p \in Pubs :
        /\ bconn[c].pc = "read" /\ BRegistered(c)
        /\ pub[p].pc = "wait" /\ pub[p].id = bconn[c].id
        /\ chan[p].st = "pending"
        /\ pub[p].id \in DOMAIN callbacks
        /\ callbacks[pub[p].id] # <<>> /\ Head(callbacks[pub[p].id]) = p

(* ---------------- a frame that arrives after a timeout ----------------- *)

\* Publish p timed out on connection c: its slot is removed and 408 returned.
TimedOutOn(p, c) ==
    /\ pub[p].pc = "done" /\ pub[p].status = 408
    /\ pub[p].sentTo = c /\ pub[p].id = conn[c].id

\* C34: a text or binary frame read from a subscriber after a publish sent
\* to it has timed out, while another publisher's slot is at the head of
\* the FIFO, is delivered to that slot; and a waiting publisher whose slot
\* holds a frame completes with 200 and the frame's payload, not with a
\* timeout.
C34_LateFrameServesNextSlot ==
    /\ [][\A c \in Conns :
            (conn[c].pc = "read" /\ conn[c].id \in DOMAIN callbacks
             /\ callbacks[conn[c].id] # <<>>
             /\ \E p1 \in Pubs : TimedOutOn(p1, c))
            => LET p2 == Head(callbacks[conn[c].id]) IN
               \A f \in {g \in Frames : g.kind \in {"text", "binary"}} :
                  (pub[p2].pc = "wait" /\ ReaderFrame(c, f))
                     => /\ chan'[p2] = Value(f.payload)
                        /\ callbacks'[conn[c].id] = Tail(callbacks[conn[c].id])
         ]_vars
    /\ [](\A p \in Pubs :
            (pub[p].pc = "wait" /\ chan[p].st = "value")
            => /\ ENABLED PubReply(p)
               /\ ~ENABLED PubTimeout(p) /\ ~ENABLED PubClosed(p))
    /\ [][\A p \in Pubs :
            (pub[p].pc = "wait" /\ chan[p].st = "value" /\ pub'[p].pc = "done")
            => pub'[p].status = 200 /\ pub'[p].body = chan[p].val]_vars

\* The first publish timed out, and the second completed with 200 and the
\* payload of a frame the subscriber sent.
C34_Witness ==
    \E c \in Conns : \E p1, p2 \in Pubs :
        /\ p1 # p2 /\ TimedOutOn(p1, c)
        /\ conn[c].pc = "read"
        /\ pub[p2].pc = "done" /\ pub[p2].status = 200
        /\ pub[p2].sentTo = c /\ pub[p2].body # <<>>

(* ---------------- a frame with no slot waiting ------------------------- *)

\* No slot waits under the identifier of connection c.
NoSlot(c) ==
    conn[c].id \notin DOMAIN callbacks \/ callbacks[conn[c].id] = <<>>

\* C35: the reading of a text or binary frame while the identifier has no
\* FIFO or an empty one changes no registry, FIFO, reply channel, request
\* or queue; and a publisher's channel receives a value only in a step
\* that pops its slot from the FIFO, so no frame read earlier answers a
\* publish that arrives later.
C35_FrameWithoutSlotIsDropped ==
    /\ [][\A c \in Conns :
            \A f \in {g \in Frames : g.kind \in {"text", "binary"}} :
               (NoSlot(c) /\ ReaderFrame(c, f)) => UNCHANGED vars]_vars
    /\ [][\A p \in Pubs :
            (chan[p].st # "value" /\ chan'[p].st = "value")
               => /\ pub[p].id \in DOMAIN callbacks
                  /\ callbacks[pub[p].id] # <<>>
                  /\ Head(callbacks[pub[p].id]) = p
                  /\ callbacks'[pub[p].id] = Tail(callbacks[pub[p].id])]_vars
    /\ [][\A p \in Pubs :
            (pub[p].pc = "idle" /\ pub'[p].pc # "idle")
               => chan'[p] = Pending]_vars

\* A subscriber is in its reader loop with its writer alive while no slot
\* waits under its identifier: the FIFO is present and empty after an
\* earlier request was served.
C35_Witness ==
    \E c \in Conns : \E p \in Pubs :
        /\ conn[c].pc = "read" /\ conn[c].open
        /\ conn[c].id \in DOMAIN callbacks /\ callbacks[conn[c].id] = <<>>
        /\ pub[p].pc = "done" /\ pub[p].status = 200 /\ pub[p].sentTo = c

(* ---------------- the heartbeat task ----------------------------------- *)

\* One step seen from the ping task of a connection with record old before
\* and new after: a ping is enqueued only by a ticking task on an open
\* queue, and it is the empty-payload ping at the tail; an ended task stays
\* ended; a task ends only when it finds the queue closed, and leaves the
\* queue as it is.
PingTaskStep(old, new) ==
    /\ Pings(new.queue) > Pings(old.queue)
          => /\ old.hb = "ticking" /\ old.open
             /\ new.queue = Append(old.queue, Msg("ping", <<>>))
    /\ old.hb = "ended" => new.hb = "ended" /\ Pings(new.queue) = 0
    /\ (old.hb = "ticking" /\ new.hb = "ended")
          => ~old.open /\ new.queue = old.queue
    /\ (old.hb = "none" /\ new.hb # "none")
          => new.hb = "ticking" /\ new.queue = <<>>

\* The step changes the ping task's position or adds a ping.
PingTaskActs(old, new) ==
    old.hb = new.hb => Pings(new.queue) > Pings(old.queue)

\* C36: the heartbeat task of a connection starts with nothing enqueued,
\* enqueues one empty-payload ping per tick while the queue is open, ends
\* at the first tick after the queue is closed and enqueues nothing
\* afterwards; its steps leave every registry and FIFO unchanged.
C36_HeartbeatTask ==
    /\ [][/\ \A c \in Conns : PingTaskStep(conn[c], conn'[c])
          /\ \A c \in BConns : PingTaskStep(bconn[c], bconn'[c])
          /\ \A c \in Conns :
                (conn[c].hb # "none" /\ PingTaskActs(conn[c], conn'[c]))
                   => UNCHANGED <<users, callbacks, chan, pub, bvars>>
          /\ \A c \in BConns :
                (bconn[c].hb # "none" /\ PingTaskActs(bconn[c], bconn'[c]))
                   => UNCHANGED <<busers, bpub, counter, svars>>]_vars
    /\ [](/\ \A c \in Conns :
               /\ conn[c].hb = "ended" => ~conn[c].open
               /\ (conn[c].hb = "ticking" /\ ~conn[c].open)
                     => ENABLED HeartbeatExit(c) /\ ~ENABLED Heartbeat(c)
          /\ \A c \in BConns :
               /\ bconn[c].hb = "ended" => ~bconn[c].open
               /\ (bconn[c].hb = "ticking" /\ ~bconn[c].open)
                     => ENABLED BHeartbeatExit(c) /\ ~ENABLED BHeartbeat(c))

\* The ping task of a single-mode connection has ended after the queue was
\* closed, and the queue of a broadcast connection holds a ping.
C36_Witness ==
    /\ \E c \in Conns : conn[c].hb = "ended" /\ Registered(c)
    /\ \E c \in BConns : bconn[c].hb = "ticking" /\ Pings(bconn[c].queue) > 0

(* ---------------- connection ids --------------------------------------- *)

\* C37: no two broadcast connections ever hold the same connection_id, and
\* no list holds an id twice; the disconnect of one connection removes no
\* other connection from the registry.
C37_ConnectionIdsUnique ==
    /\ [](/\ \A c, d \in BConns :
               (c # d /\ bconn[c].pc # "idle" /\ bconn[d].pc # "idle")
                  => bconn[c].cid # bconn[d].cid
          /\ \A id \in DOMAIN busers : \A i, j \in 1..Len(busers[id]) :
               busers[id][i].cid = busers[id][j].cid => i = j)
    /\ [][\A c \in BConns :
            (bconn[c].pc = "disc" /\ bconn'[c].pc = "gone")
               => \A d \in BConns \ {c} : BRegistered(d) => BRegistered(d)']_vars

\* Two connections are registered under one identifier after a third one
\* of that identifier has disconnected.
C37_Witness ==
    \E c, d, e \in BConns :
        /\ c # d /\ c # e /\ d # e
        /\ bconn[c].id = bconn[d].id /\ bconn[e].id = bconn[c].id
        /\ BRegistered(c) /\ BRegistered(d)
        /\ bconn[e].pc = "gone" /\ ~BRegistered(e)

====
